---- MODULE Spec2Model ----
(***************************************************************************)
(* CryptoEx client-side auth store (src/auth.js): the six localStorage     *)
(* tables, the three async operations (register, login, changePassword)    *)
(* split at their `await sha256Hex(..)` suspension points, and the         *)
(* synchronous operations around them.                                     *)
(*                                                                         *)
(* Strings on which the code computes (emails, passwords, referral codes)  *)
(* are sequences of character codes, so that trim(), toLowerCase(), the    *)
(* e-mail regular expression and the fallback checksum are computed and    *)
(* not assumed.  The empty sequence stands for "", null and undefined,     *)
(* which the code never tells apart (`x || ""`, `if (!x)`).                *)
(***************************************************************************)
EXTENDS Integers, Sequences, FiniteSets, Bags, TLC

(***************************************************************************)
(* Bounds of the model.                                                    *)
(***************************************************************************)
\* Number of API calls (and page loads) in one behaviour.
MaxOps == 3
\* Number of calls that may be suspended at `await` at the same time.
MaxTasks == 2
\* Number of exchange records in History.
MaxHistory == 3

(***************************************************************************)
(* Program constants.                                                      *)
(***************************************************************************)
\* "keep last 500": slice(0, 500) in recordRefClick / recordRefReg.
RefCap == 500
\* p.length < 8 in register / login / changePassword.
MinPasswordLen == 8

(***************************************************************************)
(* Input alphabets: the strings the UI layer hands to the operations.      *)
(***************************************************************************)
\* "a@b.co"
EmailA == <<97, 64, 98, 46, 99, 111>>
\* " A@b.co": the same address in another casing, with a leading blank
EmailAUpper == <<32, 65, 64, 98, 46, 99, 111>>
\* "c@d.co"
EmailC == <<99, 64, 100, 46, 99, 111>>
\* "a@b": no top-level domain, rejected by isValidEmail
EmailBad == <<97, 64, 98>>
EmailInputs == {EmailA, EmailAUpper, EmailC, EmailBad}

\* "AaAaAaAa"
PwA == <<65, 97, 65, 97, 65, 97, 65, 97>>
\* "BBBBBBBB": differs from PwA, same fallback checksum (65*31+97 = 66*31+66)
PwB == <<66, 66, 66, 66, 66, 66, 66, 66>>
\* "AaAaAaAb"
PwC == <<65, 97, 65, 97, 65, 97, 65, 98>>
\* "Aa": shorter than 8
PwShort == <<65, 97>>
PasswordInputs == {PwA, PwB, PwC, PwShort}

\* "ABCDEFGH", "23456789": two tokens generateRefCode() can return
CodeK == <<65, 66, 67, 68, 69, 70, 71, 72>>
CodeL == <<50, 51, 52, 53, 54, 55, 56, 57>>
GeneratedCodes == {CodeK, CodeL}
\* "ABCDEFGH ": CodeK followed by a blank (?ref=ABCDEFGH%20)
CodeKPadded == <<65, 66, 67, 68, 69, 70, 71, 72, 32>>
\* "valueOf": a property every object inherits from Object.prototype
CodeValueOf == <<118, 97, 108, 117, 101, 79, 102>>
\* " ": a blank ref parameter
CodeBlank == <<32>>
RefParams == {CodeK, CodeL, CodeKPadded, CodeValueOf, CodeBlank}
\* names that `log[c]` finds on Object.prototype when log has no own key c
\* ("valueOf", "toString" is left out of the inputs)
ObjectPrototypeKeys == {CodeValueOf}

Paths == {"/index.html"}

(***************************************************************************)
(* String primitives.                                                      *)
(***************************************************************************)
\* \s of the regular expression and the set String.prototype.trim() strips
\* (the ASCII part and U+00A0)
WhiteSpace == {9, 10, 11, 12, 13, 32, 160}

SetMin(S) == CHOOSE x \in S : \A y \in S : x <= y
SetMax(S) == CHOOSE x \in S : \A y \in S : y <= x

\* String.prototype.trim()
Trim(s) ==
  LET keep == {i \in 1..Len(s) : s[i] \notin WhiteSpace}
  IN  IF keep = {} THEN <<>> ELSE SubSeq(s, SetMin(keep), SetMax(keep))

\* String.prototype.toLowerCase() on ASCII input
toLowerCase(s) ==
  [i \in 1..Len(s) |-> IF s[i] \in 65..90 THEN s[i] + 32 ELSE s[i]]

\* Array.prototype.slice(0, n)
Slice0(s, n) == IF Len(s) <= n THEN s ELSE SubSeq(s, 1, n)

\* /^[^\s@]+@[^\s@]+\.[^\s@]{2,}$/.test(String(email || "").trim())
isValidEmail(email) ==
  LET s == Trim(email)
      n == Len(s)
  IN  \E at \in 1..n, dot \in 1..n :
        /\ at >= 2
        /\ s[at] = 64
        /\ dot >= at + 2
        /\ s[dot] = 46
        /\ n - dot >= 2
        /\ \A k \in (1..n) \ {at} : s[k] \notin WhiteSpace /\ s[k] # 64

\* h = (h * 31 + text.charCodeAt(i)) >>> 0, kept as two 16-bit halves
\* <<high, low>> of the unsigned 32-bit value
RECURSIVE FallbackSum(_, _)
FallbackSum(text, i) ==
  IF i = 0 THEN <<0, 0>>
  ELSE LET h    == FallbackSum(text, i - 1)
           low  == h[2] * 31 + text[i]
           high == h[1] * 31 + (low \div 65536)
       IN  <<high % 65536, low % 65536>>

\* sha256Hex(text).  crypto.subtle.digest is collision free on the inputs of
\* the model and is kept symbolic: the digest of a text is tagged with the
\* text.  The fallback is computed: "fallback_" + h.toString(16).
sha256Hex(avail, text) ==
  IF avail
    THEN [alg |-> "sha256", digest |-> text]
    ELSE [alg |-> "fallback", digest |-> FallbackSum(text, Len(text))]

(***************************************************************************)
(* State.                                                                  *)
(***************************************************************************)
VARIABLES
  cryptoAvail,  \* window.crypto && crypto.subtle
  Users,        \* localStorage[USERS_KEY]: sequence of user records
  Session,      \* localStorage[SESSION_KEY]: email, <<>> when absent
  Profiles,     \* localStorage[PROFILE_KEY]: email -> profile
  History,      \* localStorage[HISTORY_KEY]: sequence of exchange records
  RefLog,       \* localStorage[REF_LOG_KEY]: code -> [clicks, regs]
  IncomingRef,  \* localStorage[INCOMING_REF_KEY]: code, <<>> when absent
  tasks,        \* the calls suspended at an await, with their locals (a bag)
  ret,          \* what the last step returned to its caller
  nops,         \* calls made so far; also the reading of Date.now()
  added         \* the caller's record of the exchanges it added, oldest
                \* first, each with the session email of that moment (the
                \* oracle getMyHistory is compared with; the code has no
                \* such variable)

vars == <<cryptoAvail, Users, Session, Profiles, History, RefLog,
          IncomingRef, tasks, ret, nops, added>>
\* what no operation other than addExchange changes
env == <<cryptoAvail, added>>
storage == <<Users, Session, Profiles, History, RefLog, IncomingRef>>

EmptyMap == [k \in {} |-> <<>>]

\* The suspended calls are a bag of continuations: the locals each call
\* holds across its await.  pc names the await, users and idx are the array
\* getUsers() returned before it and the index found in it.
Suspended == BagToSet(tasks)
CanSuspend == BagCardinality(tasks) < MaxTasks
suspend(k) == tasks (+) SetToBag({k})
resume(k) == tasks (-) SetToBag({k})

Returned(op, res, a, p, q) == [op |-> op, res |-> res, a |-> a, p |-> p, q |-> q]

\* Date.now(): a clock that never runs backwards
Now == nops

\* { ...a, ...b }
Spread(a, b) ==
  [k \in DOMAIN a \cup DOMAIN b |-> IF k \in DOMAIN b THEN b[k] ELSE a[k]]

(***************************************************************************)
(* The Users table.  A user record is                                      *)
(*   [email, passHash, refCode, referredBy];                               *)
(* refCode = <<>> is a record without a refCode (a legacy account).        *)
(***************************************************************************)
NoHash == [alg |-> "none", digest |-> <<>>]

\* users.findIndex(u => u.email.toLowerCase() === email.toLowerCase()),
\* 0 for the -1 of the code
findIndex(users, email) ==
  LET m == {i \in 1..Len(users) :
              toLowerCase(users[i].email) = toLowerCase(email)}
  IN  IF m = {} THEN 0 ELSE SetMin(m)

\* users.find(u => u.email === email) as an index (getMyRefCode)
findExact(users, email) ==
  LET m == {i \in 1..Len(users) : users[i].email = email}
  IN  IF m = {} THEN 0 ELSE SetMin(m)

\* ensureUserRefCode(users, email); g is what generateRefCode() returns.
\* Result: the code (<<>> for null), the array after the call, and whether
\* setUsers(users) ran.
ensureUserRefCode(users, email, g) ==
  LET idx == findIndex(users, email)
  IN  IF idx = 0
        THEN [code |-> <<>>, users |-> users, wrote |-> FALSE]
      ELSE IF users[idx].refCode = <<>>
        THEN [code |-> g, users |-> [users EXCEPT ![idx].refCode = g],
              wrote |-> TRUE]
      ELSE [code |-> users[idx].refCode, users |-> users, wrote |-> FALSE]

\* getCurrentUser() on a session slot and a Users table.  Result: whether a
\* user was returned, its email and refCode, and the Users table afterwards.
getCurrentUser(session, users, g) ==
  LET idx == findIndex(users, session)
  IN  IF session = <<>> \/ idx = 0
        THEN [found |-> FALSE, email |-> <<>>, refCode |-> <<>>,
              users |-> users]
      ELSE IF users[idx].refCode = <<>>
        THEN [found |-> TRUE, email |-> users[idx].email, refCode |-> g,
              users |-> [users EXCEPT ![idx].refCode = g]]
      ELSE [found |-> TRUE, email |-> users[idx].email,
            refCode |-> users[idx].refCode, users |-> users]

(***************************************************************************)
(* The referral ledger.                                                    *)
(***************************************************************************)
NoEntry == [clicks |-> <<>>, regs |-> <<>>]

\* `log[c]` is truthy: c is an own key, or a name found on Object.prototype
hasEntry(log, c) == c \in DOMAIN log \/ c \in ObjectPrototypeKeys

\* log with log[c] set to entry
putEntry(log, c, entry) ==
  [k \in DOMAIN log \cup {c} |-> IF k = c THEN entry ELSE log[k]]

\* recordRefClick with the cap off by one: slice(0, 501)
recordRefClickOffByOne(log, code, ts, path) ==
  LET c == Trim(code)
      entry == IF c \in DOMAIN log THEN log[c] ELSE NoEntry
      clicks == Slice0(<<[ts |-> ts, path |-> path]>> \o entry.clicks,
                       RefCap + 1)
  IN  IF c = <<>>
        THEN [threw |-> FALSE, wrote |-> FALSE, log |-> log]
      ELSE IF c \notin DOMAIN log /\ c \in ObjectPrototypeKeys
        THEN [threw |-> TRUE, wrote |-> FALSE, log |-> log]
      ELSE [threw |-> FALSE, wrote |-> TRUE,
            log |-> [k \in DOMAIN log \cup {c} |->
                       IF k = c THEN [entry EXCEPT !.clicks = clicks]
                       ELSE log[k]]]

\* recordRefClick(code) on the ledger `log`.  threw: `log[c].clicks` is
\* undefined for an inherited property and .unshift raises a TypeError
\* before setRefLog.
recordRefClick(log, code, ts, path) ==
  LET c == Trim(code)
      entry == IF c \in DOMAIN log THEN log[c] ELSE NoEntry
      clicks == Slice0(<<[ts |-> ts, path |-> path]>> \o entry.clicks, RefCap)
  IN  IF c = <<>>
        THEN [threw |-> FALSE, wrote |-> FALSE, log |-> log]
      ELSE IF c \notin DOMAIN log /\ hasEntry(log, c)
        THEN [threw |-> TRUE, wrote |-> FALSE, log |-> log]
      ELSE [threw |-> FALSE, wrote |-> TRUE,
            log |-> putEntry(log, c, [entry EXCEPT !.clicks = clicks])]

\* recordRefReg writing to the list recordRefClick writes to
recordRefRegAsClick(log, code, email, ts) ==
  LET c == Trim(code)
      entry == IF c \in DOMAIN log THEN log[c] ELSE NoEntry
      clicks == Slice0(<<[ts |-> ts, email |-> Trim(email)]>> \o entry.clicks,
                       RefCap)
  IN  IF c = <<>>
        THEN [threw |-> FALSE, wrote |-> FALSE, log |-> log]
      ELSE IF c \notin DOMAIN log /\ c \in ObjectPrototypeKeys
        THEN [threw |-> TRUE, wrote |-> FALSE, log |-> log]
      ELSE [threw |-> FALSE, wrote |-> TRUE,
            log |-> [k \in DOMAIN log \cup {c} |->
                       IF k = c THEN [entry EXCEPT !.clicks = clicks]
                       ELSE log[k]]]

\* recordRefReg(code, email)
recordRefReg(log, code, email, ts) ==
  LET c == Trim(code)
      entry == IF c \in DOMAIN log THEN log[c] ELSE NoEntry
      regs == Slice0(<<[ts |-> ts, email |-> Trim(email)]>> \o entry.regs, RefCap)
  IN  IF c = <<>>
        THEN [threw |-> FALSE, wrote |-> FALSE, log |-> log]
      ELSE IF c \notin DOMAIN log /\ hasEntry(log, c)
        THEN [threw |-> TRUE, wrote |-> FALSE, log |-> log]
      ELSE [threw |-> FALSE, wrote |-> TRUE,
            log |-> putEntry(log, c, [entry EXCEPT !.regs = regs])]

\* getRefStatsFor(code)
getRefStatsFor(log, code) ==
  LET c == Trim(code)
  IN  IF c = <<>> \/ c \notin DOMAIN log THEN NoEntry ELSE log[c]

(***************************************************************************)
(* Initial states: what localStorage may hold when the script is loaded.   *)
(***************************************************************************)
\* an account written by a version of the site that had no referral codes
LegacyUser(avail) ==
  [email |-> EmailC, passHash |-> sha256Hex(avail, PwA),
   refCode |-> <<>>, referredBy |-> <<>>]

\* a ledger left by earlier visits: the clicks list of CodeK is one short of
\* the cap and its regs list is at the cap, both newest first
NearCapLog ==
  CodeK :> [clicks |-> [i \in 1..(RefCap - 1) |->
                          [ts |-> 0 - i, path |-> "/index.html"]],
            regs   |-> [i \in 1..RefCap |-> [ts |-> 0 - i, email |-> EmailC]]]

InitCommon ==
  /\ cryptoAvail \in BOOLEAN
  /\ Users \in {<<>>, <<LegacyUser(cryptoAvail)>>}
  /\ Session \in {<<>>} \cup {Users[i].email : i \in 1..Len(Users)}
  /\ Profiles = EmptyMap
  /\ History = <<>>
  /\ IncomingRef = <<>>
  /\ tasks = EmptyBag
  /\ ret = Returned("load", "ok", <<>>, <<>>, <<>>)
  /\ nops = 0
  /\ added = <<>>

Init == InitCommon /\ RefLog = EmptyMap

(***************************************************************************)
(* register(email, password)                                               *)
(***************************************************************************)
\* the synchronous part of register, up to the await: the failure it
\* returns, or "await"
registerCheck(users, e, p) ==
  IF ~isValidEmail(e) THEN "InvalidEmail"
  ELSE IF Len(p) < MinPasswordLen THEN "WeakPassword"
  ELSE IF findIndex(users, e) # 0 THEN "DuplicateEmail"
  ELSE "await"

\* the profile register creates
newProfile(e) ==
  [email |-> e, lastName |-> <<>>, firstName |-> <<>>, middleName |-> <<>>,
   telegram |-> <<>>, phone |-> <<>>]

\* register reading and clearing the staged referral before it validates
registerCallConsumesRef(email, password) ==
  LET e == Trim(email)
      v == registerCheck(Users, e, password)
  IN  /\ nops < MaxOps
      /\ IncomingRef' = <<>>
      /\ IF v # "await"
           THEN /\ tasks' = tasks
                /\ nops' = nops + 1
                /\ ret' = Returned("register", v, <<>>, <<>>, <<>>)
           ELSE /\ CanSuspend
                /\ nops' = nops + 1
                /\ tasks' = suspend([pc |-> "register", e |-> e,
                                     p |-> password, q |-> <<>>,
                                     users |-> Users, idx |-> 0])
                /\ ret' = Returned("register", "pending", <<>>, <<>>, <<>>)
      /\ UNCHANGED <<env, Users, Session, Profiles, History, RefLog>>

registerCall(email, password) ==
  LET e == Trim(email)
      v == registerCheck(Users, e, password)
  IN  /\ nops < MaxOps
      /\ IF v # "await"
           THEN /\ tasks' = tasks
                /\ nops' = nops + 1
                /\ ret' = Returned("register", v, <<>>, <<>>, <<>>)
           ELSE /\ CanSuspend
                /\ nops' = nops + 1
                /\ tasks' = suspend([pc |-> "register", e |-> e,
                                     p |-> password, q |-> <<>>,
                                     users |-> Users, idx |-> 0])
                /\ ret' = Returned("register", "pending", <<>>, <<>>, <<>>)
      /\ UNCHANGED <<env, storage>>

\* register after `await sha256Hex(p)`; g is what generateRefCode() returns
registerResume(k, g) ==
  LET e == k.e
      p == k.p
      incomingRef == Trim(IncomingRef)
      users == Append(k.users,
                      [email |-> e, passHash |-> sha256Hex(cryptoAvail, p),
                       refCode |-> g, referredBy |-> incomingRef])
      reg == recordRefReg(RefLog, incomingRef, e, Now)
  IN  /\ k.pc = "register"
      /\ tasks' = resume(k)
      /\ IF incomingRef # <<>> /\ reg.threw
           THEN \* the TypeError leaves register: the promise is rejected
                /\ ret' = Returned("register", "TypeError", <<>>, <<>>, <<>>)
                /\ UNCHANGED storage
           ELSE /\ RefLog' = reg.log
                /\ IncomingRef' = <<>>
                /\ Users' = users
                /\ Profiles' = IF e \in DOMAIN Profiles THEN Profiles
                               ELSE (e :> newProfile(e)) @@ Profiles
                /\ Session' = e
                /\ ret' = Returned("register", "ok", e, p, <<>>)
                /\ UNCHANGED History
      /\ UNCHANGED <<env, nops>>

(***************************************************************************)
(* login(email, password)                                                  *)
(***************************************************************************)
loginCheck(users, e, p) ==
  IF ~isValidEmail(e) THEN "InvalidEmail"
  ELSE IF Len(p) < MinPasswordLen THEN "WeakPassword"
  ELSE IF findIndex(users, e) = 0 THEN "UserNotFound"
  ELSE "await"

\* login testing that a digest was computed instead of comparing it
loginVerifyNoCompare(avail, u, p) ==
  IF sha256Hex(avail, p).digest = <<>> THEN "WrongPassword" ELSE "ok"

\* passHash !== u.passHash
loginVerify(avail, u, p) ==
  IF sha256Hex(avail, p) # u.passHash THEN "WrongPassword" ELSE "ok"

\* what login(email, password) returns when nothing runs during its await
loginResult(avail, users, email, password) ==
  LET e == Trim(email)
      v == loginCheck(users, e, password)
  IN  IF v # "await" THEN v
      ELSE loginVerify(avail, users[findIndex(users, e)], password)

loginCall(email, password) ==
  LET e == Trim(email)
      v == loginCheck(Users, e, password)
  IN  /\ nops < MaxOps
      /\ IF v # "await"
           THEN /\ tasks' = tasks
                /\ nops' = nops + 1
                /\ ret' = Returned("login", v, <<>>, <<>>, <<>>)
           ELSE /\ CanSuspend
                /\ nops' = nops + 1
                \* of `users` only u = users[idx] is read after the await
                /\ tasks' = suspend([pc |-> "login", e |-> e, p |-> password,
                                     q |-> <<>>,
                                     users |-> <<Users[findIndex(Users, e)]>>,
                                     idx |-> 1])
                /\ ret' = Returned("login", "pending", <<>>, <<>>, <<>>)
      /\ UNCHANGED <<env, storage>>

\* login putting the email it was called with into the session slot
loginResumeTypedEmail(k, g) ==
  LET u == k.users[k.idx]
      p == k.p
      v == loginVerify(cryptoAvail, u, p)
  IN  /\ k.pc = "login"
      /\ tasks' = resume(k)
      /\ IF v # "ok"
           THEN /\ ret' = Returned("login", v, <<>>, <<>>, <<>>)
                /\ UNCHANGED storage
           ELSE /\ ret' = Returned("login", "ok", k.e, p, <<>>)
                /\ Session' = k.e
                /\ Users' = ensureUserRefCode(Users, u.email, g).users
                /\ UNCHANGED <<Profiles, History, RefLog, IncomingRef>>
      /\ UNCHANGED <<env, nops>>

\* login after `await sha256Hex(p)`
loginResume(k, g) ==
  LET u == k.users[k.idx]
      p == k.p
      v == loginVerify(cryptoAvail, u, p)
  IN  /\ k.pc = "login"
      /\ tasks' = resume(k)
      /\ IF v # "ok"
           THEN /\ ret' = Returned("login", v, <<>>, <<>>, <<>>)
                /\ UNCHANGED storage
           ELSE /\ ret' = Returned("login", "ok", k.e, p, <<>>)
                /\ Session' = u.email
                /\ Users' = ensureUserRefCode(Users, u.email, g).users
                /\ UNCHANGED <<Profiles, History, RefLog, IncomingRef>>
      /\ UNCHANGED <<env, nops>>

(***************************************************************************)
(* changePassword(oldPassword, newPassword)                                *)
(***************************************************************************)
changePasswordCheck(session, users, newP) ==
  IF session = <<>> THEN "NotAuthenticated"
  ELSE IF Len(newP) < MinPasswordLen THEN "WeakPassword"
  ELSE IF findIndex(users, session) = 0 THEN "UserNotFound"
  ELSE "await"

changePasswordCall(oldPassword, newPassword) ==
  LET v == changePasswordCheck(Session, Users, newPassword)
  IN  /\ nops < MaxOps
      /\ IF v # "await"
           THEN /\ tasks' = tasks
                /\ nops' = nops + 1
                /\ ret' = Returned("changePassword", v, <<>>, <<>>, <<>>)
           ELSE /\ CanSuspend
                /\ nops' = nops + 1
                /\ tasks' = suspend([pc |-> "changePasswordOld",
                                     e |-> Session, p |-> newPassword,
                                     q |-> oldPassword, users |-> Users,
                                     idx |-> findIndex(Users, Session)])
                /\ ret' = Returned("changePassword", "pending", <<>>, <<>>,
                                   <<>>)
      /\ UNCHANGED <<env, storage>>

\* after `await sha256Hex(oldP)`: the comparison, then the second await
changePasswordResumeOld(k) ==
  LET u == k.users[k.idx]
      ok == sha256Hex(cryptoAvail, k.q) = u.passHash
  IN  /\ k.pc = "changePasswordOld"
      /\ IF ok
           THEN /\ tasks' = resume(k) (+)
                               SetToBag({[k EXCEPT !.pc = "changePasswordNew"]})
                /\ ret' = Returned("changePassword", "pending", <<>>, <<>>,
                                   <<>>)
           ELSE /\ tasks' = resume(k)
                /\ ret' = Returned("changePassword", "WrongPassword", <<>>,
                                   <<>>, <<>>)
      /\ UNCHANGED <<env, storage, nops>>

\* changePassword storing the digest it computed first
changePasswordHashOfOld(avail, oldP, newP) == sha256Hex(avail, oldP)

\* the hash changePassword stores
changePasswordHash(avail, oldP, newP) == sha256Hex(avail, newP)

\* after `await sha256Hex(newP)`: users[idx].passHash = ..; setUsers(users)
changePasswordResumeNew(k) ==
  LET users == k.users
      idx == k.idx
  IN  /\ k.pc = "changePasswordNew"
      /\ tasks' = resume(k)
      /\ Users' = [users EXCEPT ![idx].passHash =
                     changePasswordHash(cryptoAvail, k.q, k.p)]
      /\ ret' = Returned("changePassword", "ok", users[idx].email,
                         k.p, k.q)
      /\ UNCHANGED <<env, Session, Profiles, History, RefLog,
                     IncomingRef, nops>>

(***************************************************************************)
(* The synchronous operations.                                             *)
(***************************************************************************)
logout ==
  /\ nops < MaxOps
  /\ Session' = <<>>
  /\ ret' = Returned("logout", "ok", <<>>, <<>>, <<>>)
  /\ nops' = nops + 1
  /\ UNCHANGED <<env, Users, Profiles, History, RefLog, IncomingRef,
                 tasks>>

\* a call of getCurrentUser() by the UI layer
getCurrentUserCall(g) ==
  LET me == getCurrentUser(Session, Users, g)
  IN  /\ nops < MaxOps
      /\ Users' = me.users
      /\ ret' = Returned("getCurrentUser",
                         IF me.found THEN "user" ELSE "null",
                         me.email, <<>>, me.refCode)
      /\ nops' = nops + 1
      /\ UNCHANGED <<env, Session, Profiles, History, RefLog,
                     IncomingRef, tasks>>

\* getMyRefCode(); g1, g2, g3 are the values its calls of generateRefCode()
\* return.  Result: the code, the Users table and the session afterwards.
getMyRefCode(session, users0, g1, g2, g3) ==
  LET me == getCurrentUser(session, users0, g1)
      ens == ensureUserRefCode(me.users, me.email, g2)
      existing == findExact(ens.users, me.email)
      users ==
        IF ens.code # <<>> THEN ens.users
        ELSE IF existing # 0
          THEN [ens.users EXCEPT ![existing].refCode =
                  IF @ # <<>> THEN @ ELSE g3]
        ELSE Append(ens.users,
                    [email |-> me.email, passHash |-> NoHash,
                     refCode |-> g3, referredBy |-> <<>>])
      code ==
        IF ens.code # <<>> THEN ens.code
        ELSE IF existing # 0 THEN users[existing].refCode
        ELSE g3
      updated == findExact(users, me.email)
  IN  IF ~me.found
        THEN [code |-> <<>>, users |-> me.users, session |-> session]
        ELSE [code |-> code, users |-> users,
              session |-> IF updated # 0 THEN users[updated].email
                          ELSE session]

getMyRefSummary(g1, g2, g3) ==
  LET r == getMyRefCode(Session, Users, g1, g2, g3)
      stats == getRefStatsFor(RefLog, r.code)
  IN  /\ nops < MaxOps
      /\ Users' = r.users
      /\ Session' = r.session
      /\ ret' = Returned("getMyRefSummary", "ok", r.code,
                         <<Len(stats.clicks), Len(stats.regs)>>,
                         <<Slice0(stats.clicks, 10), Slice0(stats.regs, 10)>>)
      /\ nops' = nops + 1
      /\ UNCHANGED <<env, Profiles, History, RefLog, IncomingRef,
                     tasks>>

\* initRefFromUrl() with ?ref=code on the page `path`; code = <<>> when the
\* URL has no ref parameter
initRefFromUrl(code, path, g1, g2) ==
  LET me == getCurrentUser(Session, Users, g1)
      ens == ensureUserRefCode(me.users, me.email, g2)
      own == me.found /\ ens.code # <<>> /\ ens.code = code
      click == recordRefClick(RefLog, code, Now, path)
  IN  /\ nops < MaxOps
      /\ nops' = nops + 1
      /\ IF code = <<>>
           THEN /\ ret' = Returned("initRefFromUrl", "none", code, <<>>, <<>>)
                /\ UNCHANGED <<Users, IncomingRef, RefLog>>
           ELSE /\ IncomingRef' = Trim(code)
                /\ Users' = IF me.found THEN ens.users ELSE me.users
                /\ RefLog' = IF own THEN RefLog ELSE click.log
                /\ ret' = Returned("initRefFromUrl",
                                   IF own THEN "own"
                                   ELSE IF click.threw THEN "caught"
                                   ELSE IF click.wrote THEN "click"
                                   ELSE "empty",
                                   code, <<>>, <<>>)
      /\ UNCHANGED <<env, Session, Profiles, History, tasks>>

\* addExchange with h.push in place of h.unshift
addExchangePush(record) ==
  /\ Len(History) < MaxHistory
  /\ IF Session = <<>>
       THEN /\ ret' = Returned("addExchange", "not-auth", <<>>, <<>>, <<>>)
            /\ UNCHANGED <<History, added>>
       ELSE /\ History' = Append(History, Spread(record, [email |-> Session]))
            /\ added' = Append(added, [by |-> Session, record |-> record])
            /\ ret' = Returned("addExchange", "ok", Session, record, <<>>)
  /\ UNCHANGED <<cryptoAvail, Users, Session, Profiles, RefLog, IncomingRef,
                 tasks, nops>>

\* addExchange(record)
addExchange(record) ==
  /\ Len(History) < MaxHistory
  /\ IF Session = <<>>
       THEN /\ ret' = Returned("addExchange", "not-auth", <<>>, <<>>, <<>>)
            /\ UNCHANGED <<History, added>>
       ELSE /\ History' = <<Spread(record, [email |-> Session])>> \o History
            /\ added' = Append(added, [by |-> Session, record |-> record])
            /\ ret' = Returned("addExchange", "ok", Session, record, <<>>)
  /\ UNCHANGED <<cryptoAvail, Users, Session, Profiles, RefLog, IncomingRef,
                 tasks, nops>>

\* getHistory().filter(x => x.email.toLowerCase() === email.toLowerCase())
historyFor(h, email) ==
  SelectSeq(h, LAMBDA x : toLowerCase(x.email) = toLowerCase(email))

\* getMyHistory()
getMyHistory == IF Session = <<>> THEN <<>> ELSE historyFor(History, Session)

\* profile[email], with the { email } the code puts in a missing slot
profileOf(profiles, email) ==
  IF email \in DOMAIN profiles THEN profiles[email] ELSE [email |-> email]

\* updateProfile with the fields spread last: { ...profile[email], email,
\* ...fields }
updateProfileFieldsLast(fields) ==
  /\ IF Session = <<>>
       THEN /\ ret' = Returned("updateProfile", "NotAuthenticated", <<>>,
                               <<>>, <<>>)
            /\ UNCHANGED Profiles
       ELSE /\ Profiles' =
                 (Session :> Spread(Spread(profileOf(Profiles, Session),
                                           [email |-> Session]),
                                    fields)) @@ Profiles
            /\ ret' = Returned("updateProfile", "ok", Session, fields, <<>>)
  /\ UNCHANGED <<env, Users, Session, History, RefLog, IncomingRef, tasks,
                 nops>>

\* updateProfile(fields).  The call reads no clock and the profiles it can
\* write are finitely many, so it is not counted in nops.
updateProfile(fields) ==
  /\ IF Session = <<>>
       THEN /\ ret' = Returned("updateProfile", "NotAuthenticated", <<>>,
                               <<>>, <<>>)
            /\ UNCHANGED Profiles
       ELSE /\ Profiles' =
                 (Session :> Spread(Spread(profileOf(Profiles, Session),
                                           fields),
                                    [email |-> Session])) @@ Profiles
            /\ ret' = Returned("updateProfile", "ok", Session, fields, <<>>)
  /\ UNCHANGED <<env, Users, Session, History, RefLog, IncomingRef, tasks,
                 nops>>

\* getMyProfile(); <<>> for null
getMyProfile ==
  IF Session = <<>> THEN <<>> ELSE profileOf(Profiles, Session)

\* the fields the profile form hands to updateProfile
ProfileFields ==
  {[firstName |-> <<70>>], [phone |-> <<55>>, email |-> EmailC]}

\* the payloads the exchange form hands to addExchange
ExchangeRecords ==
  {[amount |-> 1], [amount |-> 2, email |-> EmailC]}

(***************************************************************************)
(* Specifications.                                                         *)
(***************************************************************************)
\* the calls the forms make: <<email, password>>
RegisterInputs ==
  {<<EmailA, PwA>>, <<EmailAUpper, PwC>>, <<EmailBad, PwA>>,
   <<EmailA, PwShort>>}
LoginInputs ==
  {<<EmailC, PwA>>, <<EmailC, PwB>>, <<EmailC, PwC>>, <<EmailAUpper, PwA>>,
   <<EmailBad, PwA>>, <<EmailC, PwShort>>}
\* <<oldPassword, newPassword>>
ChangePasswordInputs ==
  {<<PwA, PwC>>, <<PwA, PwA>>, <<PwA, PwB>>, <<PwC, PwA>>, <<PwA, PwShort>>}

\* a suspended call continues
Resume ==
  \E k \in Suspended :
    \/ \E g \in GeneratedCodes : registerResume(k, g)
    \/ \E g \in GeneratedCodes : loginResume(k, g)
    \/ changePasswordResumeOld(k)
    \/ changePasswordResumeNew(k)

\* the credential store: accounts, sessions, referral attribution
Next ==
  \/ \E i \in RegisterInputs : registerCall(i[1], i[2])
  \/ \E i \in LoginInputs : loginCall(i[1], i[2])
  \/ \E i \in ChangePasswordInputs : changePasswordCall(i[1], i[2])
  \/ logout
  \/ \E g \in GeneratedCodes : getCurrentUserCall(g)
  \/ \E g \in GeneratedCodes : getMyRefSummary(g, g, g)
  \/ \E c \in {CodeK, CodeValueOf}, path \in Paths, g \in GeneratedCodes :
       initRefFromUrl(c, path, g, g)
  \/ Resume

Spec == Init /\ [][Next]_vars

\* registration, login and password change, with one value of
\* generateRefCode() and without the calls that only read the current user
NextCredentials ==
  \/ \E i \in RegisterInputs : registerCall(i[1], i[2])
  \/ \E i \in LoginInputs : loginCall(i[1], i[2])
  \/ \E i \in ChangePasswordInputs : changePasswordCall(i[1], i[2])
  \/ logout
  \/ \E c \in {CodeK, CodeValueOf}, path \in Paths :
       initRefFromUrl(c, path, CodeK, CodeK)
  \/ \E k \in Suspended :
       \/ registerResume(k, CodeK)
       \/ loginResume(k, CodeK)
       \/ changePasswordResumeOld(k)
       \/ changePasswordResumeNew(k)

SpecCredentials == Init /\ [][NextCredentials]_vars

\* a suspended register or login continues
ResumeSession ==
  \E k \in Suspended :
    \/ \E g \in GeneratedCodes : registerResume(k, g)
    \/ \E g \in GeneratedCodes : loginResume(k, g)

\* the referral ledger: page loads with a ref parameter, by visitors and by
\* logged-in users, in a browser with crypto.subtle, on a ledger that is
\* empty or close to the cap
InitLedger == InitCommon /\ cryptoAvail /\ RefLog \in {EmptyMap, NearCapLog}

NextLedger ==
  \/ \E c \in RefParams \cup {<<>>}, path \in Paths, g \in GeneratedCodes :
       initRefFromUrl(c, path, g, g)
  \/ \E i \in {<<EmailA, PwA>>} : registerCall(i[1], i[2])
  \/ \E i \in {<<EmailC, PwA>>} : loginCall(i[1], i[2])
  \/ logout
  \/ ResumeSession

SpecLedger == InitLedger /\ [][NextLedger]_vars

\* the exchange history: several users logging in and out and adding records
NextHistory ==
  \/ \E i \in {<<EmailAUpper, PwC>>} : registerCall(i[1], i[2])
  \/ \E i \in {<<EmailC, PwA>>, <<EmailA, PwC>>} : loginCall(i[1], i[2])
  \/ logout
  \/ \E r \in ExchangeRecords : addExchange(r)
  \/ getMyRefSummary(CodeK, CodeK, CodeK)
  \/ \E k \in Suspended : registerResume(k, CodeK) \/ loginResume(k, CodeK)

SpecHistory == Init /\ [][NextHistory]_vars

(***************************************************************************)
(* register after its await, one step per access to localStorage.  The     *)
(* store is shared by the browsing contexts of the origin and has no       *)
(* locking: between two accesses of one call another context may read or   *)
(* write it, and the script may end (a closed tab, a setItem that throws    *)
(* on a full store).  In the steps below every call runs in a browsing     *)
(* context of its own; users holds the array after users.push and q the    *)
(* value getIncomingRef() returned.                                        *)
(***************************************************************************)
RegisterWritePcs ==
  {"register.recordRefReg", "register.clearIncomingRef", "register.setUsers",
   "register.setProfile", "register.setSession"}

\* the call k goes on to the access pc
goto(k, pc) == resume(k) (+) SetToBag({[k EXCEPT !.pc = pc]})

\* lines 206-209: the digest arrives, generateRefCode(), getIncomingRef(),
\* users.push
registerAwaited(k, g) ==
  LET incomingRef == Trim(IncomingRef)
      users == Append(k.users,
                      [email |-> k.e,
                       passHash |-> sha256Hex(cryptoAvail, k.p),
                       refCode |-> g, referredBy |-> incomingRef])
  IN  /\ k.pc = "register"
      /\ tasks' = resume(k) (+)
                    SetToBag({[k EXCEPT
                                 !.pc = IF incomingRef # <<>>
                                          THEN "register.recordRefReg"
                                          ELSE "register.setUsers",
                                 !.users = users, !.q = incomingRef]})
      /\ ret' = Returned("register", "pending", <<>>, <<>>, <<>>)
      /\ UNCHANGED <<env, storage, nops>>

\* line 211: recordRefReg(incomingRef, e)
registerRecordRefReg(k) ==
  LET reg == recordRefReg(RefLog, k.q, k.e, Now)
  IN  /\ k.pc = "register.recordRefReg"
      /\ IF reg.threw
           THEN /\ tasks' = resume(k)
                /\ ret' = Returned("register", "TypeError", <<>>, <<>>, <<>>)
                /\ UNCHANGED RefLog
           ELSE /\ tasks' = goto(k, "register.clearIncomingRef")
                /\ ret' = Returned("register", "pending", <<>>, <<>>, <<>>)
                /\ RefLog' = reg.log
      /\ UNCHANGED <<env, Users, Session, Profiles, History, IncomingRef,
                     nops>>

\* line 212: clearIncomingRef()
registerClearIncomingRef(k) ==
  /\ k.pc = "register.clearIncomingRef"
  /\ tasks' = goto(k, "register.setUsers")
  /\ IncomingRef' = <<>>
  /\ ret' = Returned("register", "pending", <<>>, <<>>, <<>>)
  /\ UNCHANGED <<env, Users, Session, Profiles, History, RefLog, nops>>

\* line 214: setUsers(users)
registerSetUsers(k) ==
  /\ k.pc = "register.setUsers"
  /\ tasks' = goto(k, "register.setProfile")
  /\ Users' = k.users
  /\ ret' = Returned("register", "pending", <<>>, <<>>, <<>>)
  /\ UNCHANGED <<env, Session, Profiles, History, RefLog, IncomingRef, nops>>

\* lines 217-219: getProfile(), the default profile, setProfile(profile)
registerSetProfile(k) ==
  /\ k.pc = "register.setProfile"
  /\ tasks' = goto(k, "register.setSession")
  /\ Profiles' = IF k.e \in DOMAIN Profiles THEN Profiles
                 ELSE (k.e :> newProfile(k.e)) @@ Profiles
  /\ ret' = Returned("register", "pending", <<>>, <<>>, <<>>)
  /\ UNCHANGED <<env, Users, Session, History, RefLog, IncomingRef, nops>>

\* lines 221-222: setSessionEmail(e); return { ok: true }
registerSetSession(k) ==
  /\ k.pc = "register.setSession"
  /\ tasks' = resume(k)
  /\ Session' = k.e
  /\ ret' = Returned("register", "ok", k.e, k.p, <<>>)
  /\ UNCHANGED <<env, Users, Profiles, History, RefLog, IncomingRef, nops>>

\* registrations in browsing contexts that share the store, after visits
\* through a referral link of another user (the codes generated here are
\* CodeL, the code of the link is CodeK)
NextWrites ==
  \/ \E path \in Paths : initRefFromUrl(CodeK, path, CodeL, CodeL)
  \/ \E i \in {<<EmailA, PwA>>, <<EmailC, PwA>>} : registerCall(i[1], i[2])
  \/ logout
  \/ \E k \in Suspended :
       \/ registerAwaited(k, CodeL)
       \/ registerRecordRefReg(k)
       \/ registerClearIncomingRef(k)
       \/ registerSetUsers(k)
       \/ registerSetProfile(k)
       \/ registerSetSession(k)

SpecWrites == Init /\ [][NextWrites]_vars

\* the profiles: one registration, logins in another letter casing, logouts
\* and profile updates
NextProfile ==
  \/ \E i \in {<<EmailAUpper, PwC>>} : registerCall(i[1], i[2])
  \/ \E i \in {<<EmailA, PwC>>, <<EmailC, PwA>>} : loginCall(i[1], i[2])
  \/ logout
  \/ \E f \in ProfileFields : updateProfile(f)
  \/ \E k \in Suspended : registerResume(k, CodeK) \/ loginResume(k, CodeK)

SpecProfile == Init /\ [][NextProfile]_vars

(***************************************************************************)
(* Properties.  A step "returns" what ret holds after it; the continuation *)
(* k "returned" in a step when the step took k out of the bag.             *)
(***************************************************************************)
\* the step resumes the suspended call k and that call returns
Returns(k) == k \in Suspended /\ tasks' = resume(k)

RegisterFailures == {"InvalidEmail", "WeakPassword", "DuplicateEmail"}

NoDuplicateEmails(users) ==
  \A i, j \in 1..Len(users) :
    i # j => toLowerCase(users[i].email) # toLowerCase(users[j].email)

\* C1: a register of a valid, unregistered email with a password of 8 or
\* more characters (one that passed registerCheck and was resumed) returns
\* ok, a login made right after it with the same credentials returns ok, and
\* a login that returns ok leaves the session slot on that user.
C1_RegisterThenLogin ==
  /\ (ret.op = "register" /\ ret.res \notin RegisterFailures \cup {"pending"})
       => /\ ret.res = "ok"
          /\ loginResult(cryptoAvail, Users, ret.a, ret.p) = "ok"
  /\ (ret.op = "login" /\ ret.res = "ok")
       => toLowerCase(Session) = toLowerCase(ret.a)

\* C2: the Users table never holds two records with the same normalized
\* email, and a register never returns ok for an email that is registered
\* when it returns, whatever ran while it was suspended.
C2_OnePerEmail ==
  [][/\ NoDuplicateEmails(Users')
     /\ \A k \in Suspended :
          (Returns(k) /\ k.pc = "register" /\ ret'.res = "ok")
            => findIndex(Users, k.e) = 0]_vars

\* C3: a register that returns InvalidEmail, WeakPassword or DuplicateEmail
\* changes none of Users, Session, Profiles, History, ReferralLedger and
\* the staged IncomingReferral.
C3_FailedRegisterNoEffects ==
  [][(ret'.op = "register" /\ ret'.res \in RegisterFailures)
       => UNCHANGED storage]_vars

\* C3 witness: a register was refused as a duplicate while a referral was
\* staged and a session active.
C3_Witness ==
  /\ ret.op = "register" /\ ret.res = "DuplicateEmail"
  /\ IncomingRef # <<>>
  /\ Session # <<>>

\* C4: a login for a user that existed when it was called, with a password
\* of 8 or more characters whose digest differs from that user's stored
\* passHash, returns WrongPassword and changes neither Users nor Session.
C4_WrongPassword ==
  [][\A k \in Suspended :
       (Returns(k) /\ k.pc = "login" /\ Len(k.p) >= MinPasswordLen
          /\ sha256Hex(cryptoAvail, k.p) # k.users[k.idx].passHash)
         => /\ ret'.op = "login" /\ ret'.res = "WrongPassword"
            /\ UNCHANGED <<Users, Session>>]_vars

\* C4 witness: WrongPassword was returned to a caller whose earlier session
\* is still the active one.
C4_Witness ==
  /\ ret.op = "login" /\ ret.res = "WrongPassword"
  /\ Session # <<>> /\ findIndex(Users, Session) # 0

\* C5 as claimed: once changePassword(old, new) has returned ok, a login of
\* that user with old fails and a login with new succeeds, for any old and
\* new.
C5_AnyOldNew ==
  (ret.op = "changePassword" /\ ret.res = "ok")
    => /\ loginResult(cryptoAvail, Users, ret.a, ret.q) # "ok"
       /\ loginResult(cryptoAvail, Users, ret.a, ret.p) = "ok"

\* C5 amended: the same, for old and new whose digests differ.
C5_DistinctDigests ==
  (/\ ret.op = "changePassword" /\ ret.res = "ok"
   /\ sha256Hex(cryptoAvail, ret.q) # sha256Hex(cryptoAvail, ret.p))
    => /\ loginResult(cryptoAvail, Users, ret.a, ret.q) # "ok"
       /\ loginResult(cryptoAvail, Users, ret.a, ret.p) = "ok"

\* C5 witness: a changePassword between passwords with different digests
\* has returned ok.
C5_Witness ==
  /\ ret.op = "changePassword" /\ ret.res = "ok"
  /\ sha256Hex(cryptoAvail, ret.q) # sha256Hex(cryptoAvail, ret.p)

\* C6: when a register returns ok with the code c staged, the new user's
\* referredBy is c, the head of c's regs list carries the new email and the
\* IncomingReferral slot is empty; with nothing staged, referredBy is empty
\* and the ledger is unchanged.
C6_Attribution ==
  [][\A k \in Suspended :
       (Returns(k) /\ k.pc = "register" /\ ret'.res = "ok")
         => LET c == IncomingRef
                i == findIndex(Users', k.e)
            IN  /\ i # 0
                /\ Users'[i].referredBy = c
                /\ IncomingRef' = <<>>
                /\ IF c = <<>>
                     THEN RefLog' = RefLog
                     ELSE /\ c \in DOMAIN RefLog'
                          /\ RefLog'[c].regs # <<>>
                          /\ Head(RefLog'[c].regs).email = k.e]_vars

\* C6 witness: a register has returned ok and was attributed to CodeK.
C6_Witness ==
  /\ ret.op = "register" /\ ret.res = "ok"
  /\ IncomingRef = <<>>
  /\ findIndex(Users, ret.a) # 0
  /\ Users[findIndex(Users, ret.a)].referredBy = CodeK
  /\ CodeK \in DOMAIN RefLog
  /\ RefLog[CodeK].regs # <<>>
  /\ Head(RefLog[CodeK].regs).email = ret.a

\* C10: a user record that has a refCode keeps that refCode in every later
\* state.
C10_RefCodeStable ==
  [][\A i \in 1..Len(Users) :
       Users[i].refCode # <<>>
         => \E j \in 1..Len(Users') :
              /\ toLowerCase(Users'[j].email) = toLowerCase(Users[i].email)
              /\ Users'[j].refCode = Users[i].refCode]_vars

\* the clicks list of code c in the ledger log
clicksOf(log, c) == IF c \in DOMAIN log THEN log[c].clicks ELSE <<>>
regsOf(log, c) == IF c \in DOMAIN log THEN log[c].regs ELSE <<>>

\* list `new` is list `old` with one entry stamped ts put at its head and
\* the tail entry dropped if old was at the cap
HeadInserted(old, new, ts) ==
  /\ Len(new) = (IF Len(old) < RefCap THEN Len(old) + 1 ELSE RefCap)
  /\ new[1].ts = ts
  /\ \A i \in 2..Len(new) : new[i] = old[i - 1]

NewestFirst(list) == \A i \in 1..(Len(list) - 1) : list[i].ts >= list[i + 1].ts

\* every list of the ledger is within the cap and newest-first
LedgerCapped ==
  \A c \in DOMAIN RefLog :
    /\ Len(RefLog[c].clicks) <= RefCap
    /\ Len(RefLog[c].regs) <= RefCap
    /\ NewestFirst(RefLog[c].clicks)
    /\ NewestFirst(RefLog[c].regs)

expectedHistory(email) ==
  LET mine == SelectSeq(added,
                        LAMBDA x : toLowerCase(x.by) = toLowerCase(email))
      n == Len(mine)
  IN  [i \in 1..n |-> Spread(mine[n + 1 - i].record,
                             [email |-> mine[n + 1 - i].by])]

\* C8: getMyHistory() is the sequence of the records added under the
\* session user's email, newest first, each tagged with the session email
\* of its addition, and nothing else; it is empty with no session; History
\* holds the successful additions only, and an addExchange fails exactly
\* when there is no session.
C8_MyHistory ==
  /\ getMyHistory = (IF Session = <<>> THEN <<>> ELSE expectedHistory(Session))
  /\ Len(History) = Len(added)
  /\ \A i \in 1..Len(History) :
       History[i] = Spread(added[Len(added) + 1 - i].record,
                           [email |-> added[Len(added) + 1 - i].by])
  /\ ret.op = "addExchange" => ((ret.res = "not-auth") <=> (Session = <<>>))

\* C8 witness: two users have added records; the session user's history
\* holds its own two, newest first, one of them added with another user's
\* email in the payload, and not the other user's record.
C8_Witness ==
  /\ Len(getMyHistory) = 2
  /\ Len(History) = 3
  /\ getMyHistory[1].amount # getMyHistory[2].amount
  /\ \E i \in 1..Len(added) :
       /\ "email" \in DOMAIN added[i].record
       /\ toLowerCase(added[i].record.email) # toLowerCase(added[i].by)
       /\ toLowerCase(added[i].by) = toLowerCase(Session)

\* C9: a page load with ?ref=code, code not blank: the code is staged; if
\* the logged-in viewer's own refCode is that code its clicks list is left
\* as it was, and otherwise exactly one click is put at the head of its
\* clicks list.
C9_SelfReferralGuard ==
  [][(ret'.op = "initRefFromUrl" /\ nops' = nops + 1 /\ Trim(ret'.a) # <<>>)
       => LET c == Trim(ret'.a)
              i == findIndex(Users', Session)
              own == Session # <<>> /\ i # 0 /\ Users'[i].refCode = c
          IN  /\ IncomingRef' = c
              /\ IF own
                   THEN clicksOf(RefLog', c) = clicksOf(RefLog, c)
                   ELSE HeadInserted(clicksOf(RefLog, c),
                                     clicksOf(RefLog', c), Now)]_vars

\* C11: where the strong digest is unavailable no step stores a passHash
\* computed by the fallback checksum, and no register, login or
\* changePassword returns ok (none accepts such a hash): the call reports
\* the missing capability instead.
C11_NoWeakFallback ==
  [][/\ \A i \in 1..Len(Users') :
          Users'[i].passHash.alg = "fallback"
            => \E j \in 1..Len(Users) : Users[j].passHash = Users'[i].passHash
     /\ (ret'.op \in {"register", "login", "changePassword"}
           /\ ret'.res = "ok") => cryptoAvail]_vars

\* C12: no write of the Users table loses what a register or a
\* changePassword stored: every user of the table is still in it after the
\* step, with the passHash it had unless the step is the write of a
\* changePassword of that user that had read the hash it replaces.
C12_NoLostUpdate ==
  [][\A i \in 1..Len(Users) :
       \E j \in 1..Len(Users') :
         /\ toLowerCase(Users'[j].email) = toLowerCase(Users[i].email)
         /\ Users'[j].passHash # Users[i].passHash
              => \E k \in Suspended :
                   /\ Returns(k) /\ k.pc = "changePasswordNew"
                   /\ toLowerCase(k.e) = toLowerCase(Users[i].email)
                   /\ k.users[k.idx].passHash = Users[i].passHash]_vars

\* C13: while a register is between its await and its return and its user
\* is not in Users, the ledger holds no regs entry for its email and the
\* staged code it read has not been cleared.
C13_UserBeforeAttribution ==
  \A k \in Suspended :
    (k.pc \in RegisterWritePcs /\ findIndex(Users, k.e) = 0)
      => /\ \A c \in DOMAIN RefLog :
              \A i \in 1..Len(RefLog[c].regs) : RefLog[c].regs[i].email # k.e
         /\ k.q # <<>> => IncomingRef # <<>>

\* C14: one staging of a code is credited to at most one registration.
\* Every page load with ?ref=CodeK by a viewer whose own code is another
\* one is one staging and records one click, so once every register has
\* returned the users credited to the code are never more than its clicks;
\* and a staged code is the code of the latest such page load.
C14_OneCreditPerStaging ==
  /\ tasks = EmptyBag
       => Cardinality({regsOf(RefLog, CodeK)[i].email :
                         i \in 1..Len(regsOf(RefLog, CodeK))})
            <= Len(clicksOf(RefLog, CodeK))
  /\ (ret.op = "initRefFromUrl" /\ ret.res = "click")
       => IncomingRef = Trim(ret.a)

\* the passHash the Users table holds for email, NoHash when it has none
storedHash(users, email) ==
  IF findIndex(users, email) = 0 THEN NoHash
  ELSE users[findIndex(users, email)].passHash

\* C15: changePassword returns NotAuthenticated exactly when there is no
\* session, WeakPassword and UserNotFound only with a session, UserNotFound
\* only when the session email matches no user, and goes on to hashing only
\* with a session, a user and a new password of 8 or more characters; it
\* then returns WrongPassword when the digest of old differs from the
\* stored hash; a failure changes neither Users nor Session; a success
\* changes the passHash of the session user to the digest of new and
\* nothing else of Users, and not Session.
C15_ChangePassword ==
  [][/\ (ret'.op = "changePassword" /\ nops' = nops + 1)
          => /\ (ret'.res = "NotAuthenticated") <=> (Session = <<>>)
             /\ ret'.res = "UserNotFound" => findIndex(Users, Session) = 0
             /\ ret'.res = "pending"
                  => /\ findIndex(Users, Session) # 0
                     /\ \E k \in BagToSet(tasks') :
                          /\ k.pc = "changePasswordOld"
                          /\ k.e = Session
                          /\ Len(k.p) >= MinPasswordLen
             /\ UNCHANGED <<Users, Session>>
     /\ \A k \in Suspended :
          /\ (Returns(k) /\ k.pc = "changePasswordOld")
               => /\ ret'.res = "WrongPassword"
                  /\ sha256Hex(cryptoAvail, k.q) # storedHash(Users, k.e)
                  /\ UNCHANGED <<Users, Session>>
          /\ (k.pc = "changePasswordOld" /\ tasks' = goto(k, "changePasswordNew"))
               => /\ sha256Hex(cryptoAvail, k.q) = storedHash(Users, k.e)
                  /\ UNCHANGED <<Users, Session>>
          /\ (Returns(k) /\ k.pc = "changePasswordNew")
               => /\ ret'.res = "ok"
                  /\ findIndex(Users, k.e) # 0
                  /\ Users' = [Users EXCEPT
                                 ![findIndex(Users, k.e)].passHash =
                                   sha256Hex(cryptoAvail, k.p)]
                  /\ UNCHANGED Session]_vars

\* C16: updateProfile with no session returns NotAuthenticated and leaves
\* Profiles as it was; with a session it returns ok and writes the profile
\* kept under the session email only: the supplied fields are set, the
\* others keep their values, email is the session email whatever the fields
\* say, no other profile and no other store changes.
C16_UpdateProfile ==
  [][ret'.op = "updateProfile"
       => IF Session = <<>>
            THEN ret'.res = "NotAuthenticated" /\ UNCHANGED storage
            ELSE LET old == profileOf(Profiles, Session)
                     f == ret'.p
                 IN  /\ ret'.res = "ok"
                     /\ DOMAIN Profiles' = DOMAIN Profiles \cup {Session}
                     /\ \A key \in DOMAIN Profiles \ {Session} :
                          Profiles'[key] = Profiles[key]
                     /\ DOMAIN Profiles'[Session]
                          = DOMAIN old \cup DOMAIN f \cup {"email"}
                     /\ Profiles'[Session].email = Session
                     /\ \A x \in DOMAIN f \ {"email"} :
                          Profiles'[Session][x] = f[x]
                     /\ \A x \in DOMAIN old \ (DOMAIN f \cup {"email"}) :
                          Profiles'[Session][x] = old[x]
                     /\ UNCHANGED <<Users, Session, History, RefLog,
                                    IncomingRef>>]_vars

\* C16 witness: an update that carried another user's email was applied to
\* the session user's profile, which kept its email and the name set by an
\* earlier update, while another user's profile exists.
C16_Witness ==
  /\ ret.op = "updateProfile" /\ ret.res = "ok"
  /\ "email" \in DOMAIN ret.p /\ ret.p.email # Session
  /\ Profiles[Session].email = Session
  /\ Profiles[Session].phone = <<55>>
  /\ Profiles[Session].firstName = <<70>>
  /\ \E key \in DOMAIN Profiles : key # Session

\* C17: Profiles holds at most one profile per normalized email, and with a
\* session getMyProfile() is the profile kept for the normalized session
\* email when there is one, whatever the casing the user logged in with.
C17_ProfileByNormalizedEmail ==
  /\ \A k1, k2 \in DOMAIN Profiles :
       toLowerCase(k1) = toLowerCase(k2) => k1 = k2
  /\ Session # <<>>
       => \A key \in DOMAIN Profiles :
            toLowerCase(key) = toLowerCase(Session)
              => getMyProfile = Profiles[key]

\* C17 witness: a login typed in another casing than the registered one
\* has returned ok, and getMyProfile() is the profile made at registration
\* with the name an update gave it.
C17_Witness ==
  /\ ret.op = "login" /\ ret.res = "ok"
  /\ ret.a # Session /\ toLowerCase(ret.a) = toLowerCase(Session)
  /\ DOMAIN getMyProfile = DOMAIN newProfile(Session)
  /\ getMyProfile.firstName = <<70>>
  /\ Cardinality({key \in DOMAIN Profiles :
                    toLowerCase(key) = toLowerCase(Session)}) = 1

\* C18: when no call is suspended, a session slot that is not empty holds
\* the email of a user of the Users table, so that getCurrentUser() finds
\* a user exactly when the slot is not empty.
C18_SessionHasUser ==
  (tasks = EmptyBag /\ Session # <<>>)
    => /\ findIndex(Users, Session) # 0
       /\ getCurrentUser(Session, Users, CodeK).found

\* C19: the write of a successful changePassword changes, in the Users
\* table as it is immediately before the write, the passHash of the user
\* who was the session user when changePassword was called, and nothing
\* else: no other record, and not that user's email, refCode or referredBy.
C19_ChangePasswordFrame ==
  [][\A k \in Suspended :
       (Returns(k) /\ k.pc = "changePasswordNew" /\ ret'.res = "ok")
         => /\ Len(Users') = Len(Users)
            /\ \A i \in 1..Len(Users) :
                 IF toLowerCase(Users[i].email) = toLowerCase(k.e)
                   THEN /\ Users'[i].email = Users[i].email
                        /\ Users'[i].refCode = Users[i].refCode
                        /\ Users'[i].referredBy = Users[i].referredBy
                   ELSE Users'[i] = Users[i]]_vars

\* C20: the step that follows a logout leaves the session slot empty: a
\* call made after the logout is suspended at hashing before it sets the
\* slot, and a call that resumes was made before the logout.
C20_LogoutFinal ==
  [][(ret.op = "logout" /\ Session = <<>>) => Session' = <<>>]_vars

====
